---- MODULE Spec2Model ----
(***************************************************************************)
(* A model of the submission-evaluation API (app.py) and of the wallet     *)
(* login helpers (onchain.py).                                            *)
(*                                                                         *)
(* Numbers.  The four scoring constants are floats read from the           *)
(* environment; they are kept here in tenths (AGREE_SCORE = 1.0 is 10).    *)
(* A score, which the code rounds to four decimals, is kept as an integer  *)
(* number of ten-thousandths (0.625 is 6250).  With these constants every  *)
(* quotient the code rounds is either a dyadic rational, which a float     *)
(* holds exactly, or is not within a float error of a rounding boundary,   *)
(* so Python's round(x, 4) (correctly rounded, ties to even) is the exact  *)
(* round-half-even of the rational quotient.                               *)
(*                                                                         *)
(* Optional values (None, a missing document field) are sequences of       *)
(* length at most one: <<>> is None, <<v>> is the value v.                 *)
(***************************************************************************)
EXTENDS Integers, Sequences, FiniteSets, TLC

\* ------------------------------------------------------------ bounds

\* create_evaluation requests accepted over a run of requests that do not overlap.
MaxEvals == 3

\* create_evaluation requests accepted over a run of concurrent requests.
MaxRaceEvals == 2

\* create_category requests accepted over a run.
MaxCreates == 2

\* Out-of-band edits and removals of category documents over a run.
MaxAdminOps == 1

\* Longest answer list of the evaluation whose score is examined alone.
MaxAnswers == 4

\* Nonces issued over a run.
MaxNonces == 3

\* Credentials issued over a run.
MaxTokens == 2

\* Advances of the clock over a run.
MaxTicks == 4

\* Category documents in a store whose roles are examined.
MaxRoleCategories == 2

\* ------------------------------------------------- program constants

\* The scoring constants come from the environment; these are 4.0, 1.0, 0.0
\* and 0.5, in tenths.
MAX_SCORE == 40

AGREE_SCORE == 10

DISAGREE_SCORE == 0

NEITHER_SCORE == 5

\* Seconds.
TOKEN_TTL == 86400

NONCE_TTL == 300

SECRET == "dev-secret-must-be-32-chars-or-more"

\* ------------------------------------------------------ option type

Null == <<>>

Some(v) == <<v>>

IsNull(o) == o = <<>>

\* ---------------------------------------------------------- scoring

\* round(n / d) for n >= 0, d > 0, ties to even: Python's round().
RoundDiv(n, d) ==
    LET q == n \div d
        r == n % d
    IN  IF 2 * r < d THEN q
        ELSE IF 2 * r > d THEN q + 1
        ELSE IF q % 2 = 0 THEN q ELSE q + 1

\* round(x / MAX_SCORE, 4), x in tenths, the result in ten-thousandths.
Round4OfMax(x) == RoundDiv(x * 10000, MAX_SCORE)

RECURSIVE ScoreLoop(_, _, _)
\* The for loop of create_evaluation_with_answers over answers[i..], with
\* evaluation_score = acc on entry: an unknown code sets the running total
\* to 0.0 and the loop goes on.
ScoreLoop(answers, i, acc) ==
    IF i > Len(answers) THEN acc
    ELSE ScoreLoop(answers, i + 1,
                   CASE answers[i] = "1" -> acc + AGREE_SCORE
                     [] answers[i] = "2" -> acc + DISAGREE_SCORE
                     [] answers[i] = "3" -> acc + NEITHER_SCORE
                     [] OTHER -> 0)

RECURSIVE ScoreLoopNoNeither(_, _, _)
\* The loop with the "3" branch left out: "3" falls to the else branch.
ScoreLoopNoNeither(answers, i, acc) ==
    IF i > Len(answers) THEN acc
    ELSE ScoreLoopNoNeither(answers, i + 1,
                            CASE answers[i] = "1" -> acc + AGREE_SCORE
                              [] answers[i] = "2" -> acc + DISAGREE_SCORE
                              [] OTHER -> 0)

RawScoreNoNeither(answers) == ScoreLoopNoNeither(answers, 1, 0)

RECURSIVE ScoreLoopStopping(_, _, _)
\* The loop with a break in the else branch: an unknown code ends it with
\* the total 0.0.
ScoreLoopStopping(answers, i, acc) ==
    IF i > Len(answers) THEN acc
    ELSE CASE answers[i] = "1" -> ScoreLoopStopping(answers, i + 1, acc + AGREE_SCORE)
           [] answers[i] = "2" -> ScoreLoopStopping(answers, i + 1, acc + DISAGREE_SCORE)
           [] answers[i] = "3" -> ScoreLoopStopping(answers, i + 1, acc + NEITHER_SCORE)
           [] OTHER -> 0

RawScoreStopping(answers) == ScoreLoopStopping(answers, 1, 0)

\* evaluation_score after the loop (evaluation_score = 0 before it).
RawScore(answers) == ScoreLoop(answers, 1, 0)

\* calculated_score
CalculatedScore(answers) == Round4OfMax(RawScore(answers))

RECURSIVE SumScores(_)
SumScores(scores) ==
    IF scores = <<>> THEN 0 ELSE Head(scores) + SumScores(Tail(scores))

RECURSIVE NonNullScores(_)
\* all_evaluation_scores: the scores of the embedded evaluations that are not None.
NonNullScores(evals) ==
    IF evals = <<>> THEN <<>>
    ELSE IF IsNull(Head(evals).score) THEN NonNullScores(Tail(evals))
         ELSE <<Head(evals).score[1]>> \o NonNullScores(Tail(evals))

\* The score of the newest evaluation alone, with no averaging.
NewSubmissionScoreLatest(evals) ==
    LET all == NonNullScores(evals)
    IN  IF all = <<>> THEN 0 ELSE all[Len(all)]

\* new_submission_score
NewSubmissionScore(evals) ==
    LET all == NonNullScores(evals)
    IN  IF all = <<>> THEN 0 ELSE RoundDiv(SumScores(all), Len(all))

\* -------------------------------------------------------- addresses

\* Two accounts, each in its all-lowercase spelling and in its EIP-55
\* checksummed spelling.
Addresses == {"0xa1b2", "0xA1b2", "0xc3d4", "0xC3D4"}

\* eth_utils.to_checksum_address: every spelling of an account goes to its
\* checksummed spelling.
ToChecksumAddress(a) ==
    CASE a \in {"0xa1b2", "0xA1b2"} -> "0xA1b2"
      [] a \in {"0xc3d4", "0xC3D4"} -> "0xC3D4"

\* ------------------------------------------------------- documents

\* A category document.  A document inserted by create_category has no
\* evaluators field (schemas.CategoryCreate has none); a document put in the
\* store by other means has the list models.Category asks for.
CategoryDoc(slug, name, evaluators) ==
    [slug |-> slug, name |-> name, evaluators |-> evaluators]

\* An embedded evaluation: evaluation.model_dump().
EvaluationDoc(id, evaluator, sid, score, answers) ==
    [id |-> id, evaluator |-> evaluator, submission_id |-> sid,
     score |-> Some(score), answers |-> answers]

\* A submission document as create_submission_with_answers lays it out:
\* score None, no evaluations, the category document embedded.
SubmissionDoc(id, project, category) ==
    [id |-> id, project_id |-> project, answers |-> <<"answer">>,
     category |-> category, score |-> Null, evaluations |-> <<>>]

\* --------------------------------------------------- the workers

\* The handlers in progress: FastAPI runs the endpoints concurrently.
Workers == {"w1", "w2"}

NoReq ==
    [op |-> "none", slug |-> "", name |-> "", sid |-> "", evaluator |-> "",
     answers |-> <<>>]

NoLoc == [sub |-> Null, cat |-> Null, eid |-> 0]

\* An HTTP response: the status and the fields of the response models that
\* the handlers fill in.
Response(status, category, score, count, items) ==
    [status |-> status, category |-> category, score |-> score,
     count |-> count, items |-> items]

ErrorResponse(status) == Response(status, Null, Null, 0, <<>>)

\* ------------------------------------------------------- the state

VARIABLES
    categories,   \* the categories collection, in insertion order
    submissions,  \* the submissions collection, in insertion order
    evaluations,  \* the evaluations collection, in insertion order
    pc,           \* pc[w]: where worker w's handler stands
    req,          \* req[w]: the request worker w serves
    loc,          \* loc[w]: the handler's local variables
    last,         \* the request and the response of the handler that ended last
    nextEvalId,   \* evaluation ids given out so far, plus one (uuid4 is fresh)
    creates,      \* create_category requests accepted so far
    adminOps,     \* out-of-band category changes so far
    nonces,       \* onchain.nonces: nonce -> expiry
    nextNonce,    \* nonces given out so far, plus one (uuid4 is fresh)
    now,          \* time.time(), in half seconds
    ticks,        \* advances of the clock so far
    tokens,       \* the credentials _create_token has returned
    authResp      \* the last result of an onchain helper

vars ==
    <<categories, submissions, evaluations, pc, req, loc, last, nextEvalId,
      creates, adminOps, nonces, nextNonce, now, ticks, tokens, authResp>>

dbVars == <<categories, submissions, evaluations>>

authVars == <<nonces, nextNonce, now, ticks, tokens, authResp>>

\* ----------------------------------------------- the store's queries

\* The least element of a non-empty set of indices.
First(S) == CHOOSE i \in S : \A j \in S : i <= j

\* find_one: the first document of coll, in the store's order, among those
\* at the indices hits; None when there is none.
FindOne(coll, hits) ==
    IF hits = {} THEN Null ELSE Some(coll[First(hits)])

\* A lookup that matches no document.
FindCategoryBySlugNone(slug) == Null

\* categories_collection.find_one({"slug": slug})
FindCategoryBySlug(slug) ==
    FindOne(categories, {i \in 1..Len(categories) : categories[i].slug = slug})

\* submissions_collection.find_one({"id": sid})
FindSubmissionById(sid) ==
    FindOne(submissions, {i \in 1..Len(submissions) : submissions[i].id = sid})

\* len(list(evaluations_collection.find({"submission_id": sid})))
CountEvaluations(sid) ==
    LET M(e) == e.submission_id = sid IN Len(SelectSeq(evaluations, M))

\* ------------------------------------------------------ the inputs

Slugs == {"a", "b"}

\* The ids of the stored submissions, and one no submission has.
SubmissionIds == {"s1", "s2"}

UnknownSubmissionId == "s0"

\* Answer lists of the requests that run concurrently: scores 1.0, 0.125, 0.0.
RaceAnswers == {<<"1", "1", "1", "1">>, <<"3">>, <<"9", "2">>}

\* The answer codes a request may carry: the three the questionnaire has and
\* one it has not.
Codes == {"1", "2", "3", "9"}

ValidCodes == {"1", "2", "3"}

\* Every answer list of at most MaxAnswers answers.
AllAnswers == UNION {[1..n -> Codes] : n \in 0..MaxAnswers}

\* -------------------------------------------------- the first state

\* The store outlives the process: it starts with a category that has an
\* evaluator roster and with two submissions of that category that no one
\* has evaluated yet, laid out as create_submission_with_answers lays a
\* submission out.
SeedCategory == CategoryDoc("a", "n0", Some(<<"0xA1b2">>))

SeedSubmissions ==
    <<SubmissionDoc("s1", "p1", SeedCategory), SubmissionDoc("s2", "p2", SeedCategory)>>

\* What an onchain helper was called with and returned: the nonce of
\* _new_nonce, the role of _role, the token of _create_token, the claims (or
\* None) of _verify_token and whether the helper raised.
AuthResult(op, address, credential, nonce, role, claims, raised) ==
    [op |-> op, address |-> address, token |-> credential, time |-> now,
     nonce |-> nonce, role |-> role, claims |-> claims, raised |-> raised]

NoAuthResult == AuthResult("none", "", Null, 0, "", Null, FALSE)

AuthInit ==
    /\ nonces = <<>>
    /\ nextNonce = 1
    /\ now = 0
    /\ ticks = 0
    /\ tokens = {}
    /\ authResp = NoAuthResult

WorkersInit ==
    /\ pc = [w \in Workers |-> "idle"]
    /\ req = [w \in Workers |-> NoReq]
    /\ loc = [w \in Workers |-> NoLoc]
    /\ last = Null
    /\ nextEvalId = 1
    /\ creates = 0
    /\ adminOps = 0

Init ==
    /\ categories = <<SeedCategory>>
    /\ submissions = SeedSubmissions
    /\ evaluations = <<>>
    /\ WorkersInit
    /\ AuthInit

\* ------------------------------------------------ handler plumbing

\* Worker w takes request r and stands at `at` with locals l.
Enter(w, r, at, l) ==
    /\ req' = [req EXCEPT ![w] = r]
    /\ pc' = [pc EXCEPT ![w] = at]
    /\ loc' = [loc EXCEPT ![w] = l]
    /\ UNCHANGED last

\* Worker w's handler of request r ends with response x (a raised
\* HTTPException or validation error is a response too).
Finish(w, r, x) ==
    /\ req' = [req EXCEPT ![w] = NoReq]
    /\ pc' = [pc EXCEPT ![w] = "idle"]
    /\ loc' = [loc EXCEPT ![w] = NoLoc]
    /\ last' = Some([req |-> r, resp |-> x])

\* What CategoryRead keeps of a category document.
CategoryRead(c) == [slug |-> c.slug, name |-> c.name]

\* ------------------------------------------------- create_category

\* find_one({"slug": ...}) and the 400 it may raise.
CreateCategoryFind(w) ==
    /\ pc[w] = "idle"
    /\ creates < MaxCreates
    /\ \E slug \in Slugs :
         LET r == [NoReq EXCEPT !.op = "create_category", !.slug = slug, !.name = "n1"]
         IN  IF ~IsNull(FindCategoryBySlug(slug))
             THEN Finish(w, r, ErrorResponse(400))
             ELSE Enter(w, r, "category_insert", NoLoc)
    /\ creates' = creates + 1
    /\ UNCHANGED <<dbVars, nextEvalId, adminOps, authVars>>

\* insert_one(category.model_dump()) and the response.
CreateCategoryInsert(w) ==
    /\ pc[w] = "category_insert"
    /\ LET doc == CategoryDoc(req[w].slug, req[w].name, Null)
       IN  /\ categories' = Append(categories, doc)
           /\ Finish(w, req[w], Response(200, Some(CategoryRead(doc)), Null, 0, <<>>))
    /\ UNCHANGED <<submissions, evaluations, nextEvalId, creates, adminOps, authVars>>

\* ------------------------------------------- get_category_by_slug

GetCategoryFind(w) ==
    /\ pc[w] = "idle"
    /\ \E slug \in Slugs :
         LET r == [NoReq EXCEPT !.op = "get_category_by_slug", !.slug = slug]
             category == FindCategoryBySlug(slug)
         IN  IF IsNull(category)
             THEN Finish(w, r, ErrorResponse(404))
             ELSE Enter(w, r, "category_submissions", [NoLoc EXCEPT !.cat = category])
    /\ UNCHANGED <<dbVars, nextEvalId, creates, adminOps, authVars>>

\* The submissions of the slug, each with the looked-up category and its
\* count of stored evaluations.
GetCategorySubmissions(w) ==
    /\ pc[w] = "category_submissions"
    /\ LET M(s) == s.category.slug = req[w].slug
           found == SelectSeq(submissions, M)
           category == CategoryRead(loc[w].cat[1])
           items == [i \in 1..Len(found) |->
                       [id |-> found[i].id, score |-> found[i].score,
                        category |-> category,
                        count |-> CountEvaluations(found[i].id)]]
       IN  Finish(w, req[w], Response(200, Some(category), Null, 0, items))
    /\ UNCHANGED <<dbVars, nextEvalId, creates, adminOps, authVars>>

\* ---------------------------------- create_submission_with_answers

\* The category lookup, then Submission(...): models.Submission requires
\* owner, which the handler does not pass, and models.Category requires
\* evaluators: the construction raises and nothing is inserted.
CreateSubmission(w) ==
    /\ pc[w] = "idle"
    /\ \E slug \in Slugs :
         LET r == [NoReq EXCEPT !.op = "create_submission", !.slug = slug]
         IN  IF IsNull(FindCategoryBySlug(slug))
             THEN Finish(w, r, ErrorResponse(404))
             ELSE Finish(w, r, ErrorResponse(500))
    /\ UNCHANGED <<dbVars, nextEvalId, creates, adminOps, authVars>>

\* --------------------------------------------------- get_submission

GetSubmissionFind(w) ==
    /\ pc[w] = "idle"
    /\ \E sid \in SubmissionIds \cup {UnknownSubmissionId} :
         LET r == [NoReq EXCEPT !.op = "get_submission", !.sid = sid]
             submission == FindSubmissionById(sid)
         IN  IF IsNull(submission)
             THEN Finish(w, r, ErrorResponse(404))
             ELSE Enter(w, r, "submission_category", [NoLoc EXCEPT !.sub = submission])
    /\ UNCHANGED <<dbVars, nextEvalId, creates, adminOps, authVars>>

\* find_one({"slug": submission['category']['slug']}) and its 404.
GetSubmissionCategory(w) ==
    /\ pc[w] = "submission_category"
    /\ LET category == FindCategoryBySlug(loc[w].sub[1].category.slug)
       IN  IF IsNull(category)
           THEN Finish(w, req[w], ErrorResponse(404))
           ELSE /\ pc' = [pc EXCEPT ![w] = "submission_evaluations"]
                /\ loc' = [loc EXCEPT ![w].cat = category]
                /\ UNCHANGED <<req, last>>
    /\ UNCHANGED <<dbVars, nextEvalId, creates, adminOps, authVars>>

\* The evaluations query and the response: Category(**category) raises on
\* a category document without evaluators.
GetSubmissionEvaluations(w) ==
    /\ pc[w] = "submission_evaluations"
    /\ LET submission == loc[w].sub[1]
           category == loc[w].cat[1]
       IN  IF IsNull(category.evaluators)
           THEN Finish(w, req[w], ErrorResponse(500))
           ELSE Finish(w, req[w],
                       Response(200, Some(CategoryRead(category)), submission.score,
                                CountEvaluations(req[w].sid), <<>>))
    /\ UNCHANGED <<dbVars, nextEvalId, creates, adminOps, authVars>>

\* ---------------------------------- create_evaluation_with_answers

\* find_one({"id": submission_id}) and its 404.
CreateEvaluationFind(w, Sids, Inputs, limit) ==
    /\ pc[w] = "idle"
    /\ nextEvalId <= limit
    /\ \E sid \in Sids, answers \in Inputs :
         LET r == [NoReq EXCEPT !.op = "create_evaluation", !.sid = sid,
                                !.evaluator = "0xA1b2", !.answers = answers]
             submission == FindSubmissionById(sid)
         IN  IF IsNull(submission)
             THEN /\ Finish(w, r, ErrorResponse(404))
                  /\ UNCHANGED nextEvalId
             ELSE /\ Enter(w, r, "evaluation_update",
                           [NoLoc EXCEPT !.sub = submission, !.eid = nextEvalId])
                  /\ nextEvalId' = nextEvalId + 1
    /\ UNCHANGED <<dbVars, creates, adminOps, authVars>>

\* evaluation: the Evaluation the handler builds.
NewEvaluation(w) ==
    EvaluationDoc(loc[w].eid, req[w].evaluator, req[w].sid,
                  CalculatedScore(req[w].answers), req[w].answers)

\* submission_evaluations after the append: the list read by the find_one
\* and the new evaluation.
SubmissionEvaluations(w) == Append(loc[w].sub[1].evaluations, NewEvaluation(w))

\* An update with no filter on the id: every document is written.
UpdateEvery(coll, sid, evals, score) ==
    [i \in 1..Len(coll) |->
        [coll[i] EXCEPT !.evaluations = evals, !.score = Some(score)]]

\* An update that sets the evaluations and leaves the score as it is.
UpdateEvaluationsOnly(coll, sid, evals, score) ==
    LET hits == {i \in 1..Len(coll) : coll[i].id = sid}
    IN  IF hits = {} THEN coll
        ELSE [coll EXCEPT ![First(hits)] = [@ EXCEPT !.evaluations = evals]]

\* update_one({"id": sid}, {"$set": {"evaluations": evals, "score": score}})
UpdateOne(coll, sid, evals, score) ==
    LET hits == {i \in 1..Len(coll) : coll[i].id = sid}
    IN  IF hits = {} THEN coll
        ELSE [coll EXCEPT ![First(hits)] =
                 [@ EXCEPT !.evaluations = evals, !.score = Some(score)]]

\* The score computations and update_one on the submission.
CreateEvaluationUpdate(w) ==
    /\ pc[w] = "evaluation_update"
    /\ submissions' = UpdateOne(submissions, req[w].sid, SubmissionEvaluations(w),
                                NewSubmissionScore(SubmissionEvaluations(w)))
    /\ pc' = [pc EXCEPT ![w] = "evaluation_insert"]
    /\ UNCHANGED <<categories, evaluations, req, loc, last, nextEvalId, creates,
                   adminOps, authVars>>

\* evaluations_collection.insert_one and the response.
CreateEvaluationInsert(w) ==
    /\ pc[w] = "evaluation_insert"
    /\ evaluations' = Append(evaluations, NewEvaluation(w))
    /\ Finish(w, req[w], Response(200, Null, NewEvaluation(w).score, 0, <<>>))
    /\ UNCHANGED <<categories, submissions, nextEvalId, creates, adminOps, authVars>>

\* ---------------------------------- changes made outside the API

\* A category document is edited in the store.
EditCategory ==
    /\ adminOps < MaxAdminOps
    /\ \E i \in 1..Len(categories) :
         /\ categories[i].name # "n2"
         /\ categories' = [categories EXCEPT ![i].name = "n2"]
    /\ adminOps' = adminOps + 1
    /\ UNCHANGED <<submissions, evaluations, pc, req, loc, last, nextEvalId,
                   creates, authVars>>

\* A category document is removed from the store.
RemoveCategory ==
    /\ adminOps < MaxAdminOps
    /\ \E i \in 1..Len(categories) :
         categories' = [j \in 1..(Len(categories) - 1) |->
                           IF j < i THEN categories[j] ELSE categories[j + 1]]
    /\ adminOps' = adminOps + 1
    /\ UNCHANGED <<submissions, evaluations, pc, req, loc, last, nextEvalId,
                   creates, authVars>>

\* ------------------------------------------------------ onchain.py

appVars == <<pc, req, loc, last, nextEvalId, creates, adminOps>>

\* The clock advances by one of Steps, in half seconds.
Tick(Steps) ==
    /\ ticks < MaxTicks
    /\ \E d \in Steps : now' = now + d
    /\ ticks' = ticks + 1
    /\ UNCHANGED <<dbVars, appVars, nonces, nextNonce, tokens, authResp>>

\* No cleanup: the registry as it is.
CleanNoncesNever(registry, t) == registry

\* The cleanup with <= for <: an entry is dropped at its expiry already.
CleanNoncesAtExpiry(registry, t) ==
    [n \in {m \in DOMAIN registry : ~(registry[m] <= t)} |-> registry[n]]

\* _clean_nonces: the registry without the entries whose expiry is before t
\* (t and the expiries in half seconds).
CleanNonces(registry, t) ==
    [n \in {m \in DOMAIN registry : ~(registry[m] < t)} |-> registry[n]]

\* _new_nonce; uuid4().hex is a nonce no call returned before.  The two
\* readings of the clock in one call are taken at the same instant.
NewNonce ==
    /\ nextNonce <= MaxNonces
    /\ nonces' = CleanNonces(nonces, now) @@ (nextNonce :> now + 2 * NONCE_TTL)
    /\ nextNonce' = nextNonce + 1
    /\ authResp' = AuthResult("new_nonce", "", Null, nextNonce, "", Null, FALSE)
    /\ UNCHANGED <<dbVars, appVars, now, ticks, tokens>>

\* categories_collection.find_one({"evaluators": address}): a document
\* whose evaluators array holds the address.
FindCategoryByEvaluator(address) ==
    FindOne(categories,
            {i \in 1..Len(categories) :
                /\ ~IsNull(categories[i].evaluators)
                /\ \E k \in 1..Len(categories[i].evaluators[1]) :
                      categories[i].evaluators[1][k] = address})

\* _role without the normalisation of the address.
RoleOfAsGiven(address) ==
    IF address = "" THEN "user"
    ELSE IF ~IsNull(FindCategoryByEvaluator(address))
         THEN "evaluator"
         ELSE "user"

\* _role
RoleOf(address) ==
    IF address = "" THEN "user"
    ELSE IF ~IsNull(FindCategoryByEvaluator(ToChecksumAddress(address)))
         THEN "evaluator"
         ELSE "user"

\* A call of _role.
Role ==
    /\ \E address \in Addresses \cup {""} :
         authResp' = AuthResult("role", address, Null, 0, RoleOf(address), Null, FALSE)
    /\ UNCHANGED <<dbVars, appVars, nonces, nextNonce, now, ticks, tokens>>

\* int(_now()), in seconds.
IntNow == now \div 2

\* jwt.encode of the claims under a key: the token carries the claims and
\* is signed with the key.
JwtEncode(claims, key) == [claims |-> claims, key |-> key]

\* _create_token
CreateToken ==
    /\ Cardinality(tokens) < MaxTokens
    /\ \E address \in {"0xA1b2"}, role \in {"user", "evaluator"} :
         LET t == JwtEncode([sub |-> address, role |-> role, exp |-> IntNow + TOKEN_TTL],
                            SECRET)
         IN  /\ tokens' = tokens \cup {t}
             /\ authResp' = AuthResult("create_token", address, Some(t), 0, role, Null, FALSE)
    /\ UNCHANGED <<dbVars, appVars, nonces, nextNonce, now, ticks>>

\* The exceptions that are JWTError or a subclass of it.
JWTErrors == {"JWTError", "ExpiredSignatureError", "JWTClaimsError"}

\* A decode that checks the signature and not the expiry.
JwtDecodeNoExpiry(t, key, second) ==
    IF t.key # key THEN [error |-> "JWTError", claims |-> Null]
    ELSE [error |-> "", claims |-> Some(t.claims)]

\* jwt.decode(token, key) at second t: the claims, or the exception raised
\* on a signature the key did not make and on an exp before t.
JwtDecode(t, key, second) ==
    IF t.key # key THEN [error |-> "JWTError", claims |-> Null]
    ELSE IF t.claims.exp < second
         THEN [error |-> "ExpiredSignatureError", claims |-> Null]
         ELSE [error |-> "", claims |-> Some(t.claims)]

\* _verify_token on an optional token.
VerifyToken(credential) ==
    IF IsNull(credential)
    THEN AuthResult("verify_token", "", credential, 0, "", Null, FALSE)
    ELSE LET d == JwtDecode(credential[1], SECRET, IntNow)
         IN  IF d.error = ""
             THEN AuthResult("verify_token", "", credential, 0, "", d.claims, FALSE)
             ELSE IF d.error \in JWTErrors
                  THEN AuthResult("verify_token", "", credential, 0, "", Null, FALSE)
                  ELSE AuthResult("verify_token", "", credential, 0, "", Null, TRUE)

\* The tokens a caller may present: none, one _create_token returned, one
\* with the same claims signed with another secret, and one signed with
\* another secret that claims never to expire.
PresentedTokens ==
    {Null}
    \cup {Some(t) : t \in tokens}
    \cup {Some(JwtEncode(t.claims, "another-secret")) : t \in tokens}
    \cup {Some(JwtEncode([sub |-> "0xC3D4", role |-> "evaluator",
                          exp |-> 100 * TOKEN_TTL], "another-secret"))}

\* A call of _verify_token.
Verify ==
    /\ \E credential \in PresentedTokens : authResp' = VerifyToken(credential)
    /\ UNCHANGED <<dbVars, appVars, nonces, nextNonce, now, ticks, tokens>>

\* Nonces are issued while the clock advances by half a second or by NONCE_TTL.
NonceNext ==
    \/ Tick({1, 2 * NONCE_TTL})
    \/ NewNonce

NonceSpec == Init /\ [][NonceNext]_vars

\* Credentials are issued and presented while the clock advances by half a
\* second or by TOKEN_TTL.
TokenNext ==
    \/ Tick({1, 2 * TOKEN_TTL})
    \/ CreateToken
    \/ Verify

TokenSpec == Init /\ [][TokenNext]_vars

\* The category documents of the stores whose roles are examined: with no
\* evaluators field, with an empty roster, and with rosters that spell the
\* accounts either way.
RoleCategoryDocs ==
    {CategoryDoc("a", "n0", ev) :
        ev \in {Null, Some(<<>>), Some(<<"0xA1b2">>), Some(<<"0xa1b2">>),
                Some(<<"0xc3d4", "0xC3D4">>)}}

RoleInit ==
    /\ categories \in UNION {[1..n -> RoleCategoryDocs] : n \in 0..MaxRoleCategories}
    /\ submissions = <<>>
    /\ evaluations = <<>>
    /\ WorkersInit
    /\ AuthInit

RoleSpec == RoleInit /\ [][Role]_vars

\* ------------------------------------------------ the API, running

\* The handlers that read or write submissions and evaluations.
EvaluationHandler(w, Inputs, limit) ==
    \/ CreateSubmission(w)
    \/ GetSubmissionFind(w)
    \/ GetSubmissionCategory(w)
    \/ GetSubmissionEvaluations(w)
    \/ CreateEvaluationFind(w, SubmissionIds \cup {UnknownSubmissionId}, Inputs, limit)
    \/ CreateEvaluationUpdate(w)
    \/ CreateEvaluationInsert(w)

\* The handlers that read or write categories.
CategoryHandler(w) ==
    \/ CreateCategoryFind(w)
    \/ CreateCategoryInsert(w)
    \/ GetCategoryFind(w)
    \/ GetCategorySubmissions(w)

\* Concurrent requests on submissions and evaluations.
Next == \E w \in Workers : EvaluationHandler(w, RaceAnswers, MaxRaceEvals)

Spec == Init /\ [][Next]_vars

\* No other handler is between two of its steps.
Alone(w) == \A v \in Workers \ {w} : pc[v] = "idle"

\* Requests that run one after another, with no overlap.
SeqNext ==
    \E w \in Workers :
        \/ Alone(w) /\ CreateSubmission(w)
        \/ Alone(w) /\ GetSubmissionFind(w)
        \/ GetSubmissionCategory(w)
        \/ GetSubmissionEvaluations(w)
        \/ Alone(w) /\ CreateEvaluationFind(w, SubmissionIds \cup {UnknownSubmissionId},
                                            RaceAnswers, MaxEvals)
        \/ CreateEvaluationUpdate(w)
        \/ CreateEvaluationInsert(w)

SeqSpec == Init /\ [][SeqNext]_vars

\* Concurrent requests on categories, and reads of the submissions that
\* embed them, while category documents change in the store.
CategoryNext ==
    \/ \E w \in Workers :
         \/ CategoryHandler(w)
         \/ CreateSubmission(w)
         \/ GetSubmissionFind(w)
         \/ GetSubmissionCategory(w)
         \/ GetSubmissionEvaluations(w)
    \/ EditCategory
    \/ RemoveCategory

CategorySpec == Init /\ [][CategoryNext]_vars

\* Every operation on the store: one worker that serves one request after
\* another, and the changes made to category documents outside the API.
StoreNext ==
    \/ CreateCategoryFind("w1")
    \/ GetCategoryFind("w1")
    \/ CreateSubmission("w1")
    \/ GetSubmissionFind("w1")
    \/ CreateEvaluationFind("w1", SubmissionIds, {<<"3">>, <<"9", "2">>},
                            MaxRaceEvals)
    \/ CreateCategoryInsert("w1")
    \/ GetCategorySubmissions("w1")
    \/ GetSubmissionCategory("w1")
    \/ GetSubmissionEvaluations("w1")
    \/ CreateEvaluationUpdate("w1")
    \/ CreateEvaluationInsert("w1")
    \/ EditCategory
    \/ RemoveCategory

StoreSpec == Init /\ [][StoreNext]_vars

\* One create_evaluation request, with any answer list.
ScoreNext ==
    \/ CreateEvaluationFind("w1", {"s1"}, AllAnswers, 1)
    \/ CreateEvaluationUpdate("w1")
    \/ CreateEvaluationInsert("w1")

ScoreSpec == Init /\ [][ScoreNext]_vars

\* ============================================================ claims

\* x is n / d rounded to the nearest integer, a tie going to the even one.
IsRounded(x, n, d) ==
    /\ 2 * x * d - 2 * n <= d
    /\ 2 * n - 2 * x * d <= d
    /\ (2 * x * d - 2 * n = d \/ 2 * n - 2 * x * d = d) => x % 2 = 0

\* The weight of a valid answer code, in tenths.
Weight(code) ==
    CASE code = "1" -> AGREE_SCORE
      [] code = "2" -> DISAGREE_SCORE
      [] code = "3" -> NEITHER_SCORE

RECURSIVE WeightSum(_)
\* The sum of the weights of a list of valid answer codes.
WeightSum(answers) ==
    IF answers = <<>> THEN 0 ELSE Weight(Head(answers)) + WeightSum(Tail(answers))

AllValid(answers) == \A i \in 1..Len(answers) : answers[i] \in ValidCodes

\* Every evaluation the store holds: those of the evaluations collection
\* and those embedded in a submission.
StoredEvaluations ==
    {evaluations[i] : i \in 1..Len(evaluations)}
    \cup UNION {{submissions[i].evaluations[k] : k \in 1..Len(submissions[i].evaluations)} :
                  i \in 1..Len(submissions)}

\* C1: an evaluation whose answers all carry a code in {"1","2","3"} is
\* stored with the score round(S / MAX_SCORE, 4), S the sum of the answers'
\* weights; answers 1,1,2,3 are stored with 0.625.
C1_ValidAnswersScore ==
    \A e \in StoredEvaluations :
        /\ AllValid(e.answers) =>
              /\ ~IsNull(e.score)
              /\ IsRounded(e.score[1], WeightSum(e.answers) * 10000, MAX_SCORE)
        /\ e.answers = <<"1", "1", "2", "3">> => e.score = Some(6250)

C1_Witness ==
    /\ evaluations # <<>>
    /\ evaluations[1].answers = <<"1", "1", "2", "3">>
    /\ evaluations[1].score = Some(6250)
    /\ submissions[1].evaluations = <<evaluations[1]>>

\* C2: an evaluation with at least one answer code outside {"1","2","3"},
\* at any position, is stored with the score 0.0.
C2_InvalidCodeZeroes ==
    \A e \in StoredEvaluations : ~AllValid(e.answers) => e.score = Some(0)

\* The scores of the evaluations created so far for submission sid, in the
\* order of their creation.
CreatedScores(sid) ==
    LET M(e) == e.submission_id = sid
        es == SelectSeq(evaluations, M)
    IN  [i \in 1..Len(es) |-> es[i].score[1]]

RECURSIVE Total(_)
Total(xs) == IF xs = <<>> THEN 0 ELSE Head(xs) + Total(Tail(xs))

Quiescent == \A w \in Workers : pc[w] = "idle"

\* C3: when create_evaluation requests do not overlap, a submission's score
\* is null before the first of them and, once k of them have completed, is
\* the mean of the k evaluations' scores rounded to four decimals.
C3_SequentialMean ==
    Quiescent =>
        \A i \in 1..Len(submissions) :
            LET created == CreatedScores(submissions[i].id)
            IN  IF created = <<>>
                THEN IsNull(submissions[i].score)
                ELSE /\ ~IsNull(submissions[i].score)
                     /\ IsRounded(submissions[i].score[1], Total(created), Len(created))

\* Three evaluations scoring 1.0, 0.125 and 0.125 give 0.4167.
C3_Witness ==
    /\ Quiescent
    /\ CreatedScores("s1") = <<10000, 1250, 1250>>
    /\ submissions[1].score = Some(4167)

\* Some category document has the slug.
SlugTaken(slug) == \E i \in 1..Len(categories) : categories[i].slug = slug

\* C4: create_category called with a slug that a category already has fails
\* with an error and leaves the categories collection as it was; only a call
\* with a slug no category has goes on to insert.
C4_DuplicateSlugRejected ==
    [][creates' # creates =>
          \/ \E w \in Workers :
                /\ pc[w] = "idle"
                /\ pc'[w] = "category_insert"
                /\ ~SlugTaken(req'[w].slug)
          \/ /\ pc' = pc
             /\ categories' = categories
             /\ ~IsNull(last')
             /\ last'[1].req.op = "create_category"
             /\ SlugTaken(last'[1].req.slug)
             /\ last'[1].resp = ErrorResponse(400)]_vars

C4_Witness ==
    /\ ~IsNull(last)
    /\ last[1].req.op = "create_category"
    /\ last[1].req.slug = "a"
    /\ last[1].resp.status = 400
    /\ categories = <<SeedCategory>>

\* C8: no two documents of the categories collection have the same slug.
C8_UniqueSlugs ==
    \A i, j \in 1..Len(categories) :
        categories[i].slug = categories[j].slug => i = j

\* The evaluations embedded in the submission with id sid.
Embedded(sid) ==
    UNION {{submissions[i].evaluations[k] : k \in 1..Len(submissions[i].evaluations)} :
              i \in {j \in 1..Len(submissions) : submissions[j].id = sid}}

\* C9: an evaluation in a submission's embedded list is in it in every
\* later state.
C9_EvaluationsKept ==
    [][\A sid \in SubmissionIds : Embedded(sid) \subseteq Embedded(sid)']_vars

\* The category embedded in the submission with id sid, as a response shows it.
EmbeddedCategory(sid) ==
    CategoryRead(submissions[First({i \in 1..Len(submissions) : submissions[i].id = sid})].category)

\* C10: a read of a stored submission succeeds and returns the category
\* values embedded in the submission, whatever has since become of the
\* category document.
C10_SnapshotReads ==
    ~IsNull(last) =>
        /\ (last[1].req.op = "get_submission" /\ last[1].req.sid \in SubmissionIds) =>
              /\ last[1].resp.status = 200
              /\ last[1].resp.category = Some(EmbeddedCategory(last[1].req.sid))
        /\ (last[1].req.op = "get_category_by_slug" /\ last[1].req.slug = "a") =>
              /\ last[1].resp.status = 200
              /\ Len(last[1].resp.items) = Len(submissions)
              /\ \A k \in 1..Len(last[1].resp.items) :
                    last[1].resp.items[k].category =
                        EmbeddedCategory(last[1].resp.items[k].id)

\* C5: a nonce is absent from the registry at every time after its expiry.
C5_AbsentAfterExpiry == \A n \in DOMAIN nonces : ~(nonces[n] < now)

\* C5, amended: a nonce stays in the registry until the first _new_nonce
\* call made after its expiry, that call removes it, and a removed nonce
\* never comes back.
C5_EvictedByNextIssue ==
    [][/\ \A n \in DOMAIN nonces :
             n \in DOMAIN nonces' <=> ~(nextNonce' # nextNonce /\ nonces[n] < now)
       /\ \A n \in 1..(nextNonce - 1) :
             n \notin DOMAIN nonces => n \notin DOMAIN nonces']_vars

\* The first nonce outlived its expiry in the registry and the third call
\* removed it.
C5_Witness ==
    /\ nextNonce > 3
    /\ DOMAIN nonces = {2, 3}
    /\ nonces[2] < now

\* Some category's evaluators list holds the address as it is spelled.
Listed(address) ==
    \E i \in 1..Len(categories) :
        /\ ~IsNull(categories[i].evaluators)
        /\ \E k \in 1..Len(categories[i].evaluators[1]) :
              categories[i].evaluators[1][k] = address

\* C6: _role returns "evaluator" exactly when the checksummed address is in
\* the evaluators list of some category, and "user" otherwise, also for an
\* empty address.
C6_RoleIffListed ==
    authResp.op = "role" =>
        /\ authResp.role \in {"evaluator", "user"}
        /\ authResp.role = "evaluator" <=>
              (authResp.address # "" /\ Listed(ToChecksumAddress(authResp.address)))

\* The lowercase spelling of a listed account is an evaluator, next to a
\* category document that has no evaluators field.
C6_Witness ==
    /\ authResp.op = "role"
    /\ authResp.address = "0xa1b2"
    /\ authResp.role = "evaluator"
    /\ Len(categories) = 2
    /\ IsNull(categories[1].evaluators)

\* C7: _verify_token never raises; it returns None for an absent token, for
\* a token signed with another secret and for a token whose expiry is past,
\* and returns the claims only of a token _create_token issued, whose expiry
\* is the second of its issue plus TOKEN_TTL and has not passed.
C7_VerifyToken ==
    /\ authResp.op = "create_token" =>
          authResp.token[1].claims.exp = (authResp.time \div 2) + TOKEN_TTL
    /\ authResp.op = "verify_token" =>
          LET c == authResp.token
              second == authResp.time \div 2
              bad == \/ IsNull(c)
                     \/ c[1].key # SECRET
                     \/ c[1].claims.exp < second
          IN  /\ ~authResp.raised
              /\ bad => IsNull(authResp.claims)
              /\ ~bad => /\ c[1] \in tokens
                         /\ authResp.claims = Some(c[1].claims)

\* An issued token is refused once its expiry is past.
C7_Witness ==
    /\ authResp.op = "verify_token"
    /\ ~IsNull(authResp.token)
    /\ authResp.token[1] \in tokens
    /\ authResp.token[1].claims.exp < authResp.time \div 2
    /\ IsNull(authResp.claims)

\* The number of addresses in the evaluators list of a category document.
RosterSize(category) ==
    IF IsNull(category.evaluators) THEN 0 ELSE Len(category.evaluators[1])

\* C11: a submission has at most as many evaluations as its category has
\* evaluators.
C11_EvaluationsWithinRoster ==
    \A i \in 1..Len(submissions) :
        Len(submissions[i].evaluations) <= RosterSize(submissions[i].category)

\* C12: create_submission with the slug of an existing category succeeds and
\* inserts one submission with no evaluations and a null score, which stays
\* null while the submission has no evaluation.
C12_SubmissionCreated ==
    /\ (/\ ~IsNull(last)
        /\ last[1].req.op = "create_submission"
        /\ SlugTaken(last[1].req.slug)) =>
          /\ last[1].resp.status = 200
          /\ Len(submissions) > Len(SeedSubmissions)
    /\ \A i \in 1..Len(submissions) :
          CreatedScores(submissions[i].id) = <<>> => IsNull(submissions[i].score)

\* Worker w takes the update_one step of create_evaluation on submission sid.
UpdatesSubmission(w, sid) ==
    /\ pc[w] = "evaluation_update"
    /\ pc'[w] = "evaluation_insert"
    /\ req[w].op = "create_evaluation"
    /\ req[w].sid = sid

\* C13: every step keeps the id, project, answers and category snapshot of
\* every stored submission, and the score and the evaluations of a
\* submission change only in a create_evaluation on that submission.
C13_EvaluationFrame ==
    [][\A i \in 1..Len(submissions) :
          /\ i <= Len(submissions')
          /\ submissions'[i].id = submissions[i].id
          /\ submissions'[i].project_id = submissions[i].project_id
          /\ submissions'[i].answers = submissions[i].answers
          /\ submissions'[i].category = submissions[i].category
          /\ DOMAIN submissions'[i] = DOMAIN submissions[i]
          /\ (\/ submissions'[i].score # submissions[i].score
              \/ submissions'[i].evaluations # submissions[i].evaluations) =>
                \E w \in Workers : UpdatesSubmission(w, submissions[i].id)]_vars

\* A create_evaluation has just written s1 and s2 is as it was seeded, after
\* the live category of both was changed.
C13_Witness ==
    /\ \E w \in Workers : pc[w] = "evaluation_insert" /\ req[w].sid = "s1"
    /\ submissions[1].evaluations # <<>>
    /\ submissions[1].category = SeedCategory
    /\ submissions[2] = SeedSubmissions[2]
    /\ IsNull(FindCategoryBySlug("a"))

\* C14: a _new_nonce call at time t leaves the returned nonce in the registry
\* with expiry t + NONCE_TTL, leaves no entry whose expiry is before t, and
\* keeps every other entry whose expiry is not before t as it was.
C14_RegistryAfterIssue ==
    [][nextNonce' # nextNonce =>
          /\ authResp'.op = "new_nonce"
          /\ authResp'.nonce = nextNonce
          /\ nextNonce \in DOMAIN nonces'
          /\ nonces'[nextNonce] = now + 2 * NONCE_TTL
          /\ \A n \in DOMAIN nonces' : ~(nonces'[n] < now)
          /\ \A n \in DOMAIN nonces :
                ~(nonces[n] < now) => n \in DOMAIN nonces' /\ nonces'[n] = nonces[n]
          /\ DOMAIN nonces' \subseteq DOMAIN nonces \cup {nextNonce}]_vars

\* The third call has just returned: it removed the first nonce, whose expiry
\* was before the call, and kept the second.
C14_Witness ==
    /\ authResp.op = "new_nonce"
    /\ authResp.nonce = 3
    /\ authResp.time = now
    /\ DOMAIN nonces = {2, 3}
    /\ nonces[3] = now + 2 * NONCE_TTL
    /\ nonces[2] < nonces[3]

\* The scores of the evaluations of an embedded list, in ten-thousandths;
\* an evaluation with a null score counts as 0 here.
EmbeddedScores(evals) ==
    [k \in 1..Len(evals) |->
        IF IsNull(evals[k].score) THEN 0 ELSE evals[k].score[1]]

\* C15: whatever the interleaving of create_evaluation requests, a stored
\* submission has a null score exactly when its embedded evaluations list is
\* empty; otherwise every embedded evaluation has a score and the
\* submission's score is their mean rounded to 4 decimals.
C15_ScoreOfEmbedded ==
    \A i \in 1..Len(submissions) :
        LET evals == submissions[i].evaluations
        IN  /\ IsNull(submissions[i].score) <=> evals = <<>>
            /\ evals # <<>> =>
                  /\ \A k \in 1..Len(evals) : ~IsNull(evals[k].score)
                  /\ IsRounded(submissions[i].score[1],
                               Total(EmbeddedScores(evals)), Len(evals))

\* Two create_evaluation requests on s1 overlapped: both evaluations are in
\* the evaluations collection, the embedded list holds the later writer's
\* one only, and the two scores differ.
C15_Witness ==
    /\ Quiescent
    /\ Len(CreatedScores("s1")) = 2
    /\ CreatedScores("s1")[1] # CreatedScores("s1")[2]
    /\ Len(submissions[1].evaluations) = 1
    /\ submissions[1].score = submissions[1].evaluations[1].score

\* C16: a get_submission response reports a non-null score exactly when it
\* reports an evaluation_count of at least 1, and its evaluation_count is
\* the length of the embedded evaluations list of the submission it read.
C16_ReadConsistent ==
    [][\A w \in Workers :
          (/\ pc[w] = "submission_evaluations"
           /\ pc'[w] = "idle"
           /\ last'[1].resp.status = 200) =>
             /\ ~IsNull(last'[1].resp.score) <=> last'[1].resp.count >= 1
             /\ last'[1].resp.count = Len(loc[w].sub[1].evaluations)]_vars

\* The answers that come after the last answer whose code is outside
\* {"1","2","3"}; all of them when every code is valid.
AfterLastInvalid(answers) ==
    LET bad == {i \in 1..Len(answers) : answers[i] \notin ValidCodes}
        from == IF bad = {} THEN 1
                ELSE (CHOOSE i \in bad : \A j \in bad : j <= i) + 1
    IN  SubSeq(answers, from, Len(answers))

\* C17: the raw total of an evaluation is the sum of the weights of the
\* answers after its last invalid code (of all answers when there is none).
\* The stored score is the raw total over MAX_SCORE, which no rounding
\* alters for these weights, so the raw total is score * MAX_SCORE.
C17_TotalAfterLastInvalid ==
    \A e \in StoredEvaluations :
        /\ ~IsNull(e.score)
        /\ e.score[1] * MAX_SCORE = WeightSum(AfterLastInvalid(e.answers)) * 10000
        /\ e.answers = <<"9", "1">> => e.score = Some(2500)

\* An evaluation with an invalid code in second place is stored: the answer
\* before the code is discarded and the two after it count.
C17_Witness ==
    /\ evaluations # <<>>
    /\ evaluations[1].answers = <<"1", "9", "3", "1">>
    /\ evaluations[1].score = Some(3750)
    /\ submissions[1].evaluations = <<evaluations[1]>>

====
